---- MODULE Spec2Model ----
(***************************************************************************)
(* Python bindings of libopenraw: the openraw facade (RawFile, Bitmap,     *)
(* Thumbnail, RawData) over the native _openraw engine, and the two demo   *)
(* drivers cfa.py (extract raw data to .pgm) and thumb.py (extract         *)
(* thumbnails).                                                            *)
(*                                                                         *)
(* Python 2 byte strings are sequences of one-character strings, so that   *)
(* a header written with '%d' and the data bytes of a bitmap live in the   *)
(* same sequence: 'P5\n' is <<"P", "5", "\n">>.                            *)
(***************************************************************************)
EXTENDS Integers, Sequences, FiniteSets, TLC

VARIABLES
    prog,           \* the program running: a caller of the facade, cfa.py or thumb.py
    disk,           \* the raw files on disk, as the engine sees them
    sessions,       \* native decode sessions the engine has opened
    heap,           \* native bitmap objects (_openraw.Thumbnail / RawData)
    rawfiles,       \* openraw.RawFile objects held by the caller
    result,         \* what the last facade call returned or raised
    calls,          \* engine requests issued by the last facade call
    returned,       \* (RawFile, width, data) of every get_thumbnail return
    ncalls,         \* number of calls the facade's caller has made
    args,           \* sys.argv file arguments of a driver
    open_in_browser,\* the -b option of a driver
    mimedb,         \* what mimetypes.guess_extension answers in this process
    argi,           \* position of the driver's for loop over args
    pc,             \* "run", "done" or "crashed" (uncaught exception)
    exc,            \* the exception that ended the driver, if any
    fs,             \* files of the destination directory: name -> bytes
    stderr,         \* diagnostics printed to sys.stderr
    browser,        \* paths handed to webbrowser
    trace           \* engine requests and file writes of a driver, in order

vars == <<prog, disk, sessions, heap, rawfiles, result, calls, returned, ncalls,
          args, open_in_browser, mimedb, argi, pc, exc, fs, stderr, browser,
          trace>>

facadeVars == <<prog, disk, sessions, heap, rawfiles, result, calls, returned, ncalls>>
driverVars == <<args, open_in_browser, mimedb, argi, pc, exc, fs, stderr,
                browser, trace>>

-----------------------------------------------------------------------------
(* Bounds of the model. *)

MaxArgs == 3        \* file arguments of one driver run
MaxCalls == 4       \* calls made by the caller of the facade

-----------------------------------------------------------------------------
(* Sequence helpers. *)

Last(s) == s[Len(s)]

Range(s) == {s[i] : i \in 1..Len(s)}

\* the positions of character c in s
Positions(s, c) == {i \in 1..Len(s) : s[i] = c}

Max(S) == CHOOSE x \in S : \A y \in S : y <= x

Min(S) == CHOOSE x \in S : \A y \in S : x <= y

Abs(n) == IF n < 0 THEN -n ELSE n

-----------------------------------------------------------------------------
(* String formatting, as Python's % operator does it. *)

Digit == <<"0", "1", "2", "3", "4", "5", "6", "7", "8", "9">>

\* '%d' % n
RECURSIVE FormatD(_)
FormatD(n) ==
    IF n < 0 THEN <<"-">> \o FormatD(-n)
    ELSE IF n < 10 THEN <<Digit[n + 1]>>
    ELSE FormatD(n \div 10) \o <<Digit[(n % 10) + 1]>>

-----------------------------------------------------------------------------
(* os.path *)

\* os.path.basename(p): what follows the last "/"
basename(p) ==
    LET seps == Positions(p, "/")
        i == IF seps = {} THEN 0 ELSE Max(seps)
    IN  SubSeq(p, i + 1, Len(p))

\* os.path.splitext(p): split at the last "." of the last component, unless
\* that component has only dots before it. <<root, ext>>
splitext(p) ==
    LET seps == Positions(p, "/")
        sepIndex == IF seps = {} THEN 0 ELSE Max(seps)
        dots == Positions(p, ".")
        dotIndex == IF dots = {} THEN 0 ELSE Max(dots)
    IN  IF dotIndex > sepIndex
           /\ \E k \in (sepIndex + 1)..(dotIndex - 1) : p[k] # "."
        THEN <<SubSeq(p, 1, dotIndex - 1), SubSeq(p, dotIndex, Len(p))>>
        ELSE <<p, <<>>>>

-----------------------------------------------------------------------------
(* The native engine _openraw: no source of it is in the tree, only its     *)
(* tests (tests/_openraw_test.py) and its contract in the design notes.     *)

OR_ERROR_NONE == "OR_ERROR_NONE"
OR_ERROR_CANT_OPEN == "OR_ERROR_CANT_OPEN"
OR_ERROR_NOT_FOUND == "OR_ERROR_NOT_FOUND"
OR_ERROR_INVALID_FORMAT == "OR_ERROR_INVALID_FORMAT"

OR_RAWFILE_TYPE_UNKNOWN == "OR_RAWFILE_TYPE_UNKNOWN"
OR_RAWFILE_TYPE_CR2 == "OR_RAWFILE_TYPE_CR2"
OR_RAWFILE_TYPE_NEF == "OR_RAWFILE_TYPE_NEF"

OR_OPTIONS_NONE == "OR_OPTIONS_NONE"
OR_OPTIONS_DONT_DECOMPRESS == "OR_OPTIONS_DONT_DECOMPRESS"

OR_DATA_TYPE_NONE == "OR_DATA_TYPE_NONE"
OR_DATA_TYPE_PIXMAP_8RGB == "OR_DATA_TYPE_PIXMAP_8RGB"
OR_DATA_TYPE_JPEG == "OR_DATA_TYPE_JPEG"
OR_DATA_TYPE_TIFF == "OR_DATA_TYPE_TIFF"
OR_DATA_TYPE_PNG == "OR_DATA_TYPE_PNG"
OR_DATA_TYPE_CFA == "OR_DATA_TYPE_CFA"
OR_DATA_TYPE_COMPRESSED_CFA == "OR_DATA_TYPE_COMPRESSED_CFA"

\* A native bitmap object. size is kept beside data, as the engine's struct
\* does; min, max and compression are meaningful for RawData only.
NativeBitmap(kind, dataType, x, y, bpc, data, min, max, compression) ==
    [kind |-> kind, dataType |-> dataType, x |-> x, y |-> y, bpc |-> bpc,
     data |-> data, size |-> Len(data),
     min |-> min, max |-> max, compression |-> compression]

\* _openraw.Thumbnail() and _openraw.RawData(): a default-constructed object
NewThumbnail == NativeBitmap("Thumbnail", OR_DATA_TYPE_NONE, 0, 0, 0, <<>>, 0, 0, 0)
NewRawData == NativeBitmap("RawData", OR_DATA_TYPE_NONE, 0, 0, 0, <<>>, 0, 0, 0)

Thumb(dataType, x, y, data) ==
    NativeBitmap("Thumbnail", dataType, x, y, 8, data, 0, 0, 0)

\* One embedded thumbnail as the engine finds it in the container.
ThumbEntry(width, err, bitmap) == [width |-> width, err |-> err, bitmap |-> bitmap]

\* The sensor plane as the engine finds it: decoded, or left compressed.
RawEntry(err, x, y, bpc, data, packed, max) ==
    [err |-> err,
     decoded |-> NativeBitmap("RawData", OR_DATA_TYPE_CFA, x, y, bpc, data, 0, max, 0),
     compressed |-> NativeBitmap("RawData", OR_DATA_TYPE_COMPRESSED_CFA, x, y, bpc,
                                 packed, 0, max, 1)]

Content(parsable, format, orientation, thumbs, raw) ==
    [parsable |-> parsable, format |-> format, orientation |-> orientation,
     thumbs |-> thumbs, raw |-> raw]

\* what the engine sees where there is no file, or no raw container
NoContent ==
    Content(FALSE, OR_RAWFILE_TYPE_UNKNOWN, 0, <<>>,
            RawEntry(OR_ERROR_CANT_OPEN, 0, 0, 0, <<>>, <<>>, 0))

\* a buffer that is no raw container at all
Garbage ==
    Content(FALSE, OR_RAWFILE_TYPE_UNKNOWN, 0, <<>>,
            RawEntry(OR_ERROR_INVALID_FORMAT, 0, 0, 0, <<>>, <<>>, 0))

(* The paths given to the programs. *)
PathDuckA == <<"a", "/", "d", "u", "c", "k", ".", "c", "r", "2">>
PathDuckB == <<"b", "/", "d", "u", "c", "k", ".", "c", "r", "2">>
PathDuckC == <<"c", "/", "d", "u", "c", "k", ".", "c", "r", "2">>
PathOdd == <<"x", ".", "y", "/", "o", "d", "d", ".", "n", "e", "f">>
PathBad == <<"b", "a", "d", ".", "c", "r", "2">>
PathNoExt == <<"n", "o", "e", "x", "t">>

Paths == {PathDuckA, PathDuckB, PathDuckC, PathOdd, PathBad, PathNoExt}

\* the paths at which a file exists
OnDisk == {PathDuckA, PathDuckB, PathDuckC, PathOdd, PathBad}

BpcSet == {0, 8, 12, 14}
MaxSet == {5, 4095}

\* duck.cr2 of the tests: thumbnails of widths 1936, 160, 486, the 160 one a
\* 160x120 JPEG, the 486 one a packed RGB pixmap; raw data 3944x2622 at 14 bits
ContentDuckA ==
    Content(TRUE, OR_RAWFILE_TYPE_CR2, 1,
            <<ThumbEntry(1936, OR_ERROR_NONE,
                         Thumb(OR_DATA_TYPE_JPEG, 1936, 1288, <<"J", "\n", "1">>)),
              ThumbEntry(160, OR_ERROR_NONE,
                         Thumb(OR_DATA_TYPE_JPEG, 160, 120, <<"J", "2">>)),
              ThumbEntry(486, OR_ERROR_NONE,
                         Thumb(OR_DATA_TYPE_PIXMAP_8RGB, 486, 324, <<"r", "g", "b">>))>>,
            RawEntry(OR_ERROR_NONE, 3944, 2622, 14, <<"s", "\n", "t">>, <<"z">>, 16383))

\* another duck.cr2, in another directory: the same width twice, then a
\* thumbnail in an encoding without MIME type
ContentDuckB ==
    Content(TRUE, OR_RAWFILE_TYPE_CR2, 6,
            <<ThumbEntry(160, OR_ERROR_NONE,
                         Thumb(OR_DATA_TYPE_PIXMAP_8RGB, 160, 120, <<"P", "5", "\n">>)),
              ThumbEntry(160, OR_ERROR_NONE,
                         Thumb(OR_DATA_TYPE_PNG, 160, 120, <<"N">>)),
              ThumbEntry(640, OR_ERROR_NONE,
                         Thumb(OR_DATA_TYPE_COMPRESSED_CFA, 640, 480, <<"c">>))>>,
            RawEntry(OR_ERROR_NONE, 7, 5, 8, <<"u", "v">>, <<"w">>, 255))

\* a third duck.cr2, of another shot: its one thumbnail has the type and the
\* dimensions of the 160 thumbnail of the first, and other bytes
ContentDuckC ==
    Content(TRUE, OR_RAWFILE_TYPE_CR2, 1,
            <<ThumbEntry(160, OR_ERROR_NONE,
                         Thumb(OR_DATA_TYPE_JPEG, 160, 120, <<"J", "4">>))>>,
            RawEntry(OR_ERROR_NONE, 7, 5, 8, <<"u", "4">>, <<"w">>, 255))

\* a file with an unmapped thumbnail between two mapped ones; the bit depth
\* and the reported max of its raw data vary
ContentOdd(bpc, max) ==
    Content(TRUE, OR_RAWFILE_TYPE_NEF, 8,
            <<ThumbEntry(320, OR_ERROR_NONE,
                         Thumb(OR_DATA_TYPE_TIFF, 320, 240, <<"I", "I">>)),
              ThumbEntry(80, OR_ERROR_NONE,
                         Thumb(OR_DATA_TYPE_NONE, 80, 60, <<"?">>)),
              ThumbEntry(640, OR_ERROR_NONE,
                         Thumb(OR_DATA_TYPE_PNG, 640, 480, <<"N", "G">>))>>,
            RawEntry(OR_ERROR_NONE, 30, 20, bpc, <<"o", "d">>, <<"q">>, max))

\* a container whose second thumbnail and raw data cannot be decoded
ContentBad ==
    Content(TRUE, OR_RAWFILE_TYPE_CR2, 1,
            <<ThumbEntry(160, OR_ERROR_NONE,
                         Thumb(OR_DATA_TYPE_JPEG, 160, 120, <<"J", "3">>)),
              ThumbEntry(480, OR_ERROR_INVALID_FORMAT, NewThumbnail),
              ThumbEntry(1000, OR_ERROR_NONE,
                         Thumb(OR_DATA_TYPE_PNG, 1000, 750, <<"N", "3">>))>>,
            RawEntry(OR_ERROR_INVALID_FORMAT, 0, 0, 0, <<>>, <<>>, 0))

Disk(bpc, max) ==
    [p \in Paths |->
        CASE p = PathDuckA -> ContentDuckA
          [] p = PathDuckB -> ContentDuckB
          [] p = PathDuckC -> ContentDuckC
          [] p = PathOdd -> ContentOdd(bpc, max)
          [] p = PathBad -> ContentBad
          [] OTHER -> NoContent]

Disks == {Disk(b, m) : b \in BpcSet, m \in MaxSet}

DefaultDisk == Disk(12, 4095)

TypeHints == {OR_RAWFILE_TYPE_UNKNOWN, OR_RAWFILE_TYPE_CR2}

\* the null handle and a handle on session number id
None == [isNone |-> TRUE, id |-> 0]
Handle(id) == [isNone |-> FALSE, id |-> id]

\* the engine's guess of a format from the file name
GuessByExtension(path) ==
    LET ext == splitext(path)[2]
    IN  CASE ext = <<".", "c", "r", "2">> -> OR_RAWFILE_TYPE_CR2
          [] ext = <<".", "n", "e", "f">> -> OR_RAWFILE_TYPE_NEF
          [] OTHER -> OR_RAWFILE_TYPE_UNKNOWN

Session(content, type) == [content |-> content, type |-> type]

\* _openraw.RawFile.newRawFile(path, hint): <<handle, sessions'>>. A forced
\* type gives a handle whatever the path; a guess needs a file and a known
\* extension.
newRawFile(d, ss, path, hint) ==
    LET type == IF hint # OR_RAWFILE_TYPE_UNKNOWN THEN hint
                ELSE IF path \in OnDisk THEN GuessByExtension(path)
                ELSE OR_RAWFILE_TYPE_UNKNOWN
    IN  IF type = OR_RAWFILE_TYPE_UNKNOWN THEN <<None, ss>>
        ELSE <<Handle(Len(ss) + 1), Append(ss, Session(d[path], type))>>

\* _openraw.RawFile.newRawFileFromMemory(data, hint): the guess can only use
\* the content
newRawFileFromMemory(ss, data, hint) ==
    LET type == IF hint # OR_RAWFILE_TYPE_UNKNOWN THEN hint ELSE data.format
    IN  IF type = OR_RAWFILE_TYPE_UNKNOWN THEN <<None, ss>>
        ELSE <<Handle(Len(ss) + 1), Append(ss, Session(data, type))>>

\* rawfile.type(), rawfile.getOrientation(), rawfile.listThumbnailSizes()
type(s) == s.type
getOrientation(s) == s.content.orientation
listThumbnailSizes(s) == [i \in 1..Len(s.content.thumbs) |-> s.content.thumbs[i].width]

\* the engine's closest-match selection: the first thumbnail at the least
\* distance from the requested width
ClosestThumb(thumbs, width) ==
    LET dist(i) == Abs(thumbs[i].width - width)
        best == Min({dist(i) : i \in 1..Len(thumbs)})
    IN  Min({i \in 1..Len(thumbs) : dist(i) = best})

\* rawfile.getThumbnail(width, thumbnail): <<error, thumbnail as filled>>
getThumbnail(s, width, thumbnail) ==
    IF ~s.content.parsable THEN <<OR_ERROR_CANT_OPEN, thumbnail>>
    ELSE IF s.content.thumbs = <<>> THEN <<OR_ERROR_NOT_FOUND, thumbnail>>
    ELSE LET e == s.content.thumbs[ClosestThumb(s.content.thumbs, width)]
         IN  IF e.err # OR_ERROR_NONE THEN <<e.err, thumbnail>>
             ELSE <<OR_ERROR_NONE, e.bitmap>>

\* rawfile.getRawData(rawdata, options): <<error, rawdata as filled>>
getRawData(s, rawdata, options) ==
    IF s.content.raw.err # OR_ERROR_NONE THEN <<s.content.raw.err, rawdata>>
    ELSE IF options = OR_OPTIONS_DONT_DECOMPRESS
         THEN <<OR_ERROR_NONE, s.content.raw.compressed>>
         ELSE <<OR_ERROR_NONE, s.content.raw.decoded>>

(* The native bitmap's accessors and setters (tests/_openraw_test.py). *)
setData(b, data) == [b EXCEPT !.data = data, !.size = Len(data)]
setDimensions(b, x, y) == [b EXCEPT !.x = x, !.y = y]
setBpc(b, bpc) == [b EXCEPT !.bpc = bpc]
setDataType(b, dataType) == [b EXCEPT !.dataType = dataType]
setMin(b, min) == [b EXCEPT !.min = min]
setMax(b, max) == [b EXCEPT !.max = max]
setCompression(b, compression) == [b EXCEPT !.compression = compression]

-----------------------------------------------------------------------------
(* openraw/__init__.py: the facade. A call's outcome is a record: whether   *)
(* it raised, the exception or the value, the engine's sessions and the     *)
(* native objects after it, and the engine requests it made, in order.      *)

PyNone == "None"

\* class Error(Exception): or_error_code defaults to None
Error(or_error_code) == [class |-> "openraw.Error", or_error_code |-> or_error_code]

NoError == [class |-> "", or_error_code |-> PyNone]

\* RawFile.__init__: self._rawfile = rawfile
RawFile(rawfile) == [_rawfile |-> rawfile]

\* Bitmap.__init__: self._bitmap = bitmap, a reference to a native object
Bitmap(bitmap) == [_bitmap |-> bitmap]

Raise(error, ss, hp, reqs) ==
    [raised |-> TRUE, error |-> error, value |-> <<>>,
     sessions |-> ss, heap |-> hp, calls |-> reqs]

Return(value, ss, hp, reqs) ==
    [raised |-> FALSE, error |-> NoError, value |-> value,
     sessions |-> ss, heap |-> hp, calls |-> reqs]

\* one request to the engine, as the engine saw it
Request(op, handle, arg, ret) == [op |-> op, handle |-> handle, arg |-> arg, ret |-> ret]

\* a native object on the heap, with the request that filled it
Native(bitmap, handle, arg) == [bitmap |-> bitmap, handle |-> handle, arg |-> arg]

\* RawFile.from_path, without the check for a null handle
from_path_unchecked(d, ss, path, raw_type_hint) ==
    LET r == newRawFile(d, ss, path, raw_type_hint)
    IN  Return(RawFile(r[1]), r[2], <<>>,
               <<Request("newRawFile", None, <<path, raw_type_hint>>, r[1])>>)

\* RawFile.from_path(path, raw_type_hint)
from_path(d, ss, path, raw_type_hint) ==
    LET r == newRawFile(d, ss, path, raw_type_hint)
        rawfile == r[1]
        reqs == <<Request("newRawFile", None, <<path, raw_type_hint>>, rawfile)>>
    IN  IF rawfile = None
        THEN Raise(Error(PyNone), r[2], <<>>, reqs)
        ELSE Return(RawFile(rawfile), r[2], <<>>, reqs)

\* RawFile.from_string(data, raw_type_hint)
from_string(ss, data, raw_type_hint) ==
    LET r == newRawFileFromMemory(ss, data, raw_type_hint)
        rawfile == r[1]
        reqs == <<Request("newRawFileFromMemory", None, <<data, raw_type_hint>>, rawfile)>>
    IN  IF rawfile = None
        THEN Raise(Error(PyNone), r[2], <<>>, reqs)
        ELSE Return(RawFile(rawfile), r[2], <<>>, reqs)

\* the session behind self._rawfile
SessionOf(ss, self) == ss[self._rawfile.id]

\* RawFile.get_type()
get_type(ss, self) == type(SessionOf(ss, self))

\* RawFile.get_orientation()
get_orientation(ss, self) == getOrientation(SessionOf(ss, self))

\* RawFile.get_thumbnail_widths()
get_thumbnail_widths(ss, self) == listThumbnailSizes(SessionOf(ss, self))

\* RawFile.get_thumbnail, answering from the object a previous call with the
\* same width returned when there is one
get_thumbnail_cached(ss, hp, self, requested_width) ==
    LET old == {i \in 1..Len(hp) : /\ hp[i].bitmap.kind = "Thumbnail"
                                   /\ hp[i].handle = self._rawfile
                                   /\ hp[i].arg = requested_width}
        r == getThumbnail(SessionOf(ss, self), requested_width, NewThumbnail)
        req == Request("getThumbnail", self._rawfile, requested_width, r[1])
    IN  IF old # {} THEN Return(Bitmap(Min(old)), ss, hp, <<>>)
        ELSE IF r[1] # OR_ERROR_NONE THEN Raise(Error(r[1]), ss, hp, <<req>>)
        ELSE Return(Bitmap(Len(hp) + 1),
                    ss, Append(hp, Native(r[2], self._rawfile, requested_width)),
                    <<req>>)

\* RawFile.get_thumbnail, returning the Thumbnail whatever the error code
get_thumbnail_unchecked(ss, hp, self, requested_width) ==
    LET r == getThumbnail(SessionOf(ss, self), requested_width, NewThumbnail)
    IN  Return(Bitmap(Len(hp) + 1),
               ss, Append(hp, Native(r[2], self._rawfile, requested_width)),
               <<Request("getThumbnail", self._rawfile, requested_width, r[1])>>)

\* RawFile.get_thumbnail(requested_width): a fresh _openraw.Thumbnail() is
\* filled by the engine; a code other than OR_ERROR_NONE is raised
get_thumbnail(ss, hp, self, requested_width) ==
    LET thumbnail == NewThumbnail
        r == getThumbnail(SessionOf(ss, self), requested_width, thumbnail)
        error == r[1]
        req == Request("getThumbnail", self._rawfile, requested_width, error)
    IN  IF error # OR_ERROR_NONE
        THEN Raise(Error(error), ss, hp, <<req>>)
        ELSE Return(Bitmap(Len(hp) + 1),
                    ss, Append(hp, Native(r[2], self._rawfile, requested_width)),
                    <<req>>)

\* RawFile.get_raw_data(options)
get_raw_data(ss, hp, self, options) ==
    LET rawdata == NewRawData
        r == getRawData(SessionOf(ss, self), rawdata, options)
        error == r[1]
        req == Request("getRawData", self._rawfile, options, error)
    IN  IF error # OR_ERROR_NONE
        THEN Raise(Error(error), ss, hp, <<req>>)
        ELSE Return(Bitmap(Len(hp) + 1),
                    ss, Append(hp, Native(r[2], self._rawfile, options)),
                    <<req>>)

\* [self.get_thumbnail(width) for width in widths[i..]]: the comprehension
\* stops at the first call that raises
RECURSIVE thumbnails_for(_, _, _, _, _, _, _)
thumbnails_for(ss, hp, self, widths, i, acc, reqs) ==
    IF i > Len(widths) THEN Return(acc, ss, hp, reqs)
    ELSE LET o == get_thumbnail(ss, hp, self, widths[i])
         IN  IF o.raised THEN Raise(o.error, o.sessions, o.heap, reqs \o o.calls)
             ELSE thumbnails_for(o.sessions, o.heap, self, widths, i + 1,
                                 Append(acc, o.value), reqs \o o.calls)

\* the widths with every repeated width dropped
Unique(widths) ==
    LET keep == {i \in 1..Len(widths) : \A j \in 1..(i - 1) : widths[j] # widths[i]}
        F[i \in 0..Len(widths)] ==
            IF i = 0 THEN <<>>
            ELSE IF i \in keep THEN Append(F[i - 1], widths[i]) ELSE F[i - 1]
    IN  F[Len(widths)]

\* RawFile.get_thumbnails, asking once per distinct width
get_thumbnails_unique(ss, hp, self) ==
    LET widths == get_thumbnail_widths(ss, self)
    IN  thumbnails_for(ss, hp, self, Unique(widths), 1, <<>>,
                       <<Request("listThumbnailSizes", self._rawfile, <<>>, widths)>>)

\* RawFile.get_thumbnails()
get_thumbnails(ss, hp, self) ==
    LET widths == get_thumbnail_widths(ss, self)
    IN  thumbnails_for(ss, hp, self, widths, 1, <<>>,
                       <<Request("listThumbnailSizes", self._rawfile, <<>>, widths)>>)

\* Bitmap.get_size, computed from the dimensions
get_size_from_dimensions(hp, self) == hp[self._bitmap].bitmap.x * hp[self._bitmap].bitmap.y

\* Bitmap accessors
get_data_type(hp, self) == hp[self._bitmap].bitmap.dataType
get_size(hp, self) == hp[self._bitmap].bitmap.size
get_data(hp, self) == hp[self._bitmap].bitmap.data
get_width(hp, self) == hp[self._bitmap].bitmap.x
get_height(hp, self) == hp[self._bitmap].bitmap.y
get_bits_per_channel(hp, self) == hp[self._bitmap].bitmap.bpc

-----------------------------------------------------------------------------
(* A caller of the facade: it opens raw files, queries them, extracts       *)
(* bitmaps and mutates the native objects of bitmaps it was given.          *)

\* the paths and buffers the caller opens: the bytes of a file, or garbage
FacadePaths == {PathDuckB, PathBad, PathNoExt}
FacadeBuffers(d) == {d[PathDuckB], Garbage}

RequestWidths == {160, 500}
OptionSet == {OR_OPTIONS_NONE, OR_OPTIONS_DONT_DECOMPRESS}
NewDataSet == {<<>>, <<"m", "n">>}

NoFiles == [n \in {} |-> <<>>]

\* the extension mimetypes.guess_extension picks for a MIME type: one of
\* those the type map of the process knows, the same one at every call
MimeDbs ==
    {[m \in {"image/jpeg", "image/tiff", "image/png"} |->
        CASE m = "image/jpeg" -> j
          [] m = "image/tiff" -> t
          [] OTHER -> <<".", "p", "n", "g">>] :
     j \in {<<".", "j", "p", "e">>, <<".", "j", "p", "g">>},
     t \in {<<".", "t", "i", "f">>, <<".", "t", "i", "f", "f">>}}

Called(op, self, arg, o) ==
    [op |-> op, self |-> self, arg |-> arg,
     raised |-> o.raised, error |-> o.error, value |-> o.value]

NoCall == [op |-> "", self |-> 0, arg |-> <<>>,
           raised |-> FALSE, error |-> NoError, value |-> <<>>]

DriverIdle ==
    /\ args = <<>>
    /\ open_in_browser = FALSE
    /\ mimedb \in MimeDbs
    /\ mimedb["image/jpeg"] = <<".", "j", "p", "e">>
    /\ mimedb["image/tiff"] = <<".", "t", "i", "f">>
    /\ argi = 0
    /\ pc = "idle"
    /\ exc = NoError
    /\ fs = NoFiles
    /\ stderr = <<>>
    /\ browser = <<>>
    /\ trace = <<>>

InitFacade ==
    /\ prog = "caller"
    /\ disk = DefaultDisk
    /\ sessions = <<>>
    /\ heap = <<>>
    /\ rawfiles = <<>>
    /\ result = NoCall
    /\ calls = <<>>
    /\ returned = {}
    /\ ncalls = 0
    /\ DriverIdle

\* one more call of the caller
Counted ==
    /\ prog = "caller"
    /\ ncalls < MaxCalls
    /\ ncalls' = ncalls + 1

\* the RawFile objects the caller can use
ValidRawFiles == {i \in 1..Len(rawfiles) : ~rawfiles[i]._rawfile.isNone}

\* raw_file = openraw.RawFile.from_path(path, hint)
FromPath ==
    \E path \in FacadePaths, hint \in TypeHints :
        /\ \E o \in {from_path(disk, sessions, path, hint)} :
               /\ sessions' = o.sessions
               /\ rawfiles' = IF o.raised THEN rawfiles ELSE Append(rawfiles, o.value)
               /\ result' = Called("from_path", 0, <<path, hint>>, o)
               /\ calls' = o.calls
        /\ UNCHANGED <<prog, disk, heap, returned>>
        /\ Counted
        /\ UNCHANGED driverVars

\* raw_file = openraw.RawFile.from_string(data, hint)
FromString ==
    \E data \in FacadeBuffers(disk), hint \in TypeHints :
        /\ \E o \in {from_string(sessions, data, hint)} :
               /\ sessions' = o.sessions
               /\ rawfiles' = IF o.raised THEN rawfiles ELSE Append(rawfiles, o.value)
               /\ result' = Called("from_string", 0, <<data, hint>>, o)
               /\ calls' = o.calls
        /\ UNCHANGED <<prog, disk, heap, returned>>
        /\ Counted
        /\ UNCHANGED driverVars

\* raw_file.get_type(), get_orientation(), get_thumbnail_widths()
Query ==
    \E i \in ValidRawFiles, op \in {"get_type", "get_orientation", "get_thumbnail_widths"} :
        /\ result' =
             [NoCall EXCEPT !.op = op, !.self = i,
                 !.value = CASE op = "get_type" -> get_type(sessions, rawfiles[i])
                             [] op = "get_orientation" -> get_orientation(sessions, rawfiles[i])
                             [] OTHER -> get_thumbnail_widths(sessions, rawfiles[i])]
        /\ calls' = <<>>
        /\ UNCHANGED <<prog, disk, sessions, heap, rawfiles, returned>>
        /\ Counted
        /\ UNCHANGED driverVars

\* what get_thumbnail calls have returned: the RawFile, the width asked for
\* and the bytes get_data() gave right after the call
Returns(i, widths, o) ==
    IF o.raised THEN {}
    ELSE {[self |-> i, width |-> widths[k], data |-> get_data(o.heap, o.value[k])] :
          k \in 1..Len(o.value)}

\* raw_file.get_thumbnail(requested_width)
GetThumbnail ==
    \E i \in ValidRawFiles, w \in RequestWidths :
        /\ \E o \in {get_thumbnail(sessions, heap, rawfiles[i], w)} :
               /\ heap' = o.heap
               /\ result' = Called("get_thumbnail", i, w, o)
               /\ calls' = o.calls
               /\ returned' = returned \cup
                    Returns(i, <<w>>, [o EXCEPT !.value = <<o.value>>])
        /\ UNCHANGED <<prog, disk, sessions, rawfiles>>
        /\ Counted
        /\ UNCHANGED driverVars

\* raw_file.get_thumbnails()
GetThumbnails ==
    \E i \in ValidRawFiles :
        /\ \E o \in {get_thumbnails(sessions, heap, rawfiles[i])} :
               /\ heap' = o.heap
               /\ result' = Called("get_thumbnails", i, <<>>, o)
               /\ calls' = o.calls
               /\ returned' = returned \cup
                    Returns(i, get_thumbnail_widths(sessions, rawfiles[i]), o)
        /\ UNCHANGED <<prog, disk, sessions, rawfiles>>
        /\ Counted
        /\ UNCHANGED driverVars

\* raw_file.get_raw_data(options)
GetRawData ==
    \E i \in ValidRawFiles, options \in OptionSet :
        /\ \E o \in {get_raw_data(sessions, heap, rawfiles[i], options)} :
               /\ heap' = o.heap
               /\ result' = Called("get_raw_data", i, options, o)
               /\ calls' = o.calls
        /\ UNCHANGED <<prog, disk, sessions, rawfiles, returned>>
        /\ Counted
        /\ UNCHANGED driverVars

\* a setter called on the native object b
Mutate(op, b, new) ==
    /\ Counted
    /\ heap' = [heap EXCEPT ![b].bitmap = new]
    /\ result' = [NoCall EXCEPT !.op = op, !.self = b]
    /\ calls' = <<>>
    /\ UNCHANGED <<prog, disk, sessions, rawfiles, returned>>
    /\ UNCHANGED driverVars

SetData ==
    \E b \in 1..Len(heap), data \in NewDataSet :
        Mutate("setData", b, setData(heap[b].bitmap, data))

SetDimensions ==
    \E b \in 1..Len(heap) :
        Mutate("setDimensions", b, setDimensions(heap[b].bitmap, 50, 60))

SetBpc ==
    \E b \in 1..Len(heap) :
        Mutate("setBpc", b, setBpc(heap[b].bitmap, 21))

SetDataType ==
    \E b \in 1..Len(heap) :
        Mutate("setDataType", b, setDataType(heap[b].bitmap, OR_DATA_TYPE_COMPRESSED_CFA))

SetMin ==
    \E b \in 1..Len(heap) :
        /\ heap[b].bitmap.kind = "RawData"
        /\ Mutate("setMin", b, setMin(heap[b].bitmap, 5))

SetMax ==
    \E b \in 1..Len(heap) :
        /\ heap[b].bitmap.kind = "RawData"
        /\ Mutate("setMax", b, setMax(heap[b].bitmap, 5))

SetCompression ==
    \E b \in 1..Len(heap) :
        /\ heap[b].bitmap.kind = "RawData"
        /\ Mutate("setCompression", b, setCompression(heap[b].bitmap, 5))

NextFacade ==
    \/ FromPath
    \/ FromString
    \/ Query
    \/ GetThumbnail
    \/ GetThumbnails
    \/ GetRawData
    \/ SetData
    \/ SetDimensions
    \/ SetBpc
    \/ SetDataType
    \/ SetMin
    \/ SetMax
    \/ SetCompression

SpecFacade == InitFacade /\ [][NextFacade]_vars

-----------------------------------------------------------------------------
(* demo/cfa.py and demo/thumb.py: the drivers. The destination directory    *)
(* is given with -d as an absolute path; a file of it is named by its path. *)

Destination == <<"/", "o", "u", "t">>

\* os.path.join(a, b)
join(a, b) ==
    IF b # <<>> /\ b[1] = "/" THEN b
    ELSE IF a = <<>> \/ Last(a) = "/" THEN a \o b
    ELSE a \o <<"/">> \o b

\* os.path.abspath(p), for a path without "." and ".." components
abspath(p) == IF p # <<>> /\ p[1] = "/" THEN p ELSE join(<<"/", "c", "w", "d">>, p)

\* open(path, 'ab'): the bytes are added to a file that exists
WriteFile_append(files, path, data) ==
    [n \in DOMAIN files \cup {path} |->
        IF n = path
        THEN (IF path \in DOMAIN files THEN files[path] ELSE <<>>) \o data
        ELSE files[n]]

\* open(path, 'wb'); f.write(data); f.close(): the file is created or
\* truncated and holds data
WriteFile(files, path, data) ==
    [n \in DOMAIN files \cup {path} |-> IF n = path THEN data ELSE files[n]]

\* one thing a driver did: for which argument, for which thumbnail of it
\* (k = 0 for none), what it did, to which path, with which bytes, and whether
\* the engine answered with a handle or OR_ERROR_NONE
Event(arg, k, op, what, data, ok) ==
    [arg |-> arg, k |-> k, op |-> op, what |-> what, data |-> data, ok |-> ok]

\* the engine requests of a facade call, as events of argument arg
Requests(arg, reqs) ==
    [j \in 1..Len(reqs) |->
        Event(arg, 0, reqs[j].op, <<>>, <<>>,
              IF reqs[j].op \in {"getThumbnail", "getRawData"}
              THEN reqs[j].ret = OR_ERROR_NONE
              ELSE IF reqs[j].op \in {"newRawFile", "newRawFileFromMemory"}
              THEN reqs[j].ret # None
              ELSE TRUE)]

Failed(error, events) ==
    [raised |-> TRUE, error |-> error, fs |-> <<>>, browser |-> <<>>,
     stderr |-> <<>>, events |-> events]

Done(files, tabs, errs, events) ==
    [raised |-> FALSE, error |-> NoError, fs |-> files, browser |-> tabs,
     stderr |-> errs, events |-> events]

\* the header value of extract_raw_image, taken from the reported max
colors_per_channel_from_max(hp, raw_data) == hp[raw_data._bitmap].bitmap.max

\* colors_per_channel = 2 ** raw_data.get_bits_per_channel() - 1
colors_per_channel(hp, raw_data) == 2 ^ get_bits_per_channel(hp, raw_data) - 1

\* '%d %d\n' with the two dimensions in the other order
dimensions_line_swapped(width, height) ==
    FormatD(height) \o <<" ">> \o FormatD(width) \o <<"\n">>

\* '%d %d\n' % (bitmap.get_width(), bitmap.get_height())
dimensions_line(width, height) ==
    FormatD(width) \o <<" ">> \o FormatD(height) \o <<"\n">>

\* the bytes extract_raw_image writes to the .pgm file
pgm_bytes(hp, raw_data) ==
    <<"P", "5", "\n">>
    \o dimensions_line(get_width(hp, raw_data), get_height(hp, raw_data))
    \o FormatD(colors_per_channel(hp, raw_data)) \o <<"\n">>
    \o get_data(hp, raw_data)

\* extract_raw_image(rawfile_path, destination_path, open_in_browser), as call
\* number arg of main: files and tabs are the destination directory and the
\* browser before the call
extract_raw_image(d, files, tabs, arg, rawfile_path, destination_path, in_browser) ==
    LET opened == from_path(d, <<>>, rawfile_path, OR_RAWFILE_TYPE_UNKNOWN)
        got == get_raw_data(opened.sessions, <<>>, opened.value, OR_OPTIONS_NONE)
        extract_base_name == splitext(basename(rawfile_path))[1]
        image_path == abspath(join(destination_path,
                                   extract_base_name \o <<".", "p", "g", "m">>))
        bytes == pgm_bytes(got.heap, got.value)
    IN  IF opened.raised THEN Failed(opened.error, Requests(arg, opened.calls))
        ELSE IF got.raised
        THEN Failed(got.error, Requests(arg, opened.calls \o got.calls))
        ELSE Done(WriteFile(files, image_path, bytes),
                  IF in_browser THEN Append(tabs, image_path) ELSE tabs,
                  <<>>,
                  Requests(arg, opened.calls \o got.calls)
                  \o <<Event(arg, 0, "write", image_path, bytes, TRUE)>>
                  \o (IF in_browser
                      THEN <<Event(arg, 0, "browser", image_path, <<>>, TRUE)>>
                      ELSE <<>>))

\* main's for loop after a call that raised, were the exception swallowed
after_call_continue(raised, i, n) ==
    IF i + 1 > n THEN "done" ELSE "run"

\* main's for loop after call i of n: an exception is not caught and ends
\* the process, otherwise the loop goes on to the next argument
after_call(raised, i, n) ==
    IF raised THEN "crashed"
    ELSE IF i + 1 > n THEN "done" ELSE "run"

\* DATATYPE_TO_MIMETYPE
DATATYPE_TO_MIMETYPE ==
    [t \in {OR_DATA_TYPE_JPEG, OR_DATA_TYPE_TIFF, OR_DATA_TYPE_PNG} |->
        CASE t = OR_DATA_TYPE_JPEG -> "image/jpeg"
          [] t = OR_DATA_TYPE_TIFF -> "image/tiff"
          [] OTHER -> "image/png"]

\* mimetypes.guess_extension(mime_type, strict=False)
guess_extension(mdb, mime_type) == mdb[mime_type]

\* write_rgb8pixmap_to_stream with the magic number of the single-channel format
write_rgb8pixmap_as_p5(hp, bitmap, stream) ==
    stream
    \o <<"P", "5", "\n">>
    \o dimensions_line(get_width(hp, bitmap), get_height(hp, bitmap))
    \o <<"2", "5", "5", "\n">>
    \o get_data(hp, bitmap)

\* write_rgb8pixmap_to_stream(bitmap, stream): the stream after the writes
write_rgb8pixmap_to_stream(hp, bitmap, stream) ==
    stream
    \o <<"P", "6", "\n">>
    \o dimensions_line(get_width(hp, bitmap), get_height(hp, bitmap))
    \o <<"2", "5", "5", "\n">>
    \o get_data(hp, bitmap)

\* the diagnostic printed for a thumbnail without MIME type
Diagnostic(hp, thumbnail, rawfile_path) ==
    [type |-> get_data_type(hp, thumbnail), path |-> rawfile_path,
     width |-> get_width(hp, thumbnail), height |-> get_height(hp, thumbnail)]

\* the loop of extract_thumbnails leaving at an unsupported thumbnail
after_unsupported_break(k, n) == n + 1

\* continue: the loop of extract_thumbnails goes on with the next thumbnail
after_unsupported(k, n) == k + 1

\* the body of the for loop of extract_thumbnails, from thumbnail k on; c is
\* the call: its number, path, base name, destination and browser option
RECURSIVE write_thumbnails(_, _, _, _, _, _, _, _, _)
write_thumbnails(mdb, hp, thumbnails, k, c, files, tabs, errs, events) ==
    IF k > Len(thumbnails) THEN Done(files, tabs, errs, events)
    ELSE
    LET thumbnail == thumbnails[k]
        rgb == get_data_type(hp, thumbnail) = OR_DATA_TYPE_PIXMAP_8RGB
        known == get_data_type(hp, thumbnail) \in DOMAIN DATATYPE_TO_MIMETYPE
        extension ==
            IF rgb THEN <<".", "p", "p", "m">>
            ELSE guess_extension(mdb, DATATYPE_TO_MIMETYPE[get_data_type(hp, thumbnail)])
        data ==
            IF rgb THEN write_rgb8pixmap_to_stream(hp, thumbnail, <<>>)
            ELSE get_data(hp, thumbnail)
        thumbnail_name ==
            c.base \o <<"-">> \o FormatD(get_width(hp, thumbnail)) \o <<"x">>
            \o FormatD(get_height(hp, thumbnail)) \o extension
        thumbnail_path == abspath(join(c.destination, thumbnail_name))
    IN  IF ~rgb /\ ~known
        THEN write_thumbnails(mdb, hp, thumbnails,
                 after_unsupported(k, Len(thumbnails)), c, files, tabs,
                 Append(errs, Diagnostic(hp, thumbnail, c.path)),
                 Append(events, Event(c.arg, k, "stderr", <<>>, <<>>, TRUE)))
        ELSE write_thumbnails(mdb, hp, thumbnails, k + 1, c,
                 WriteFile(files, thumbnail_path, data),
                 IF c.in_browser THEN Append(tabs, thumbnail_path) ELSE tabs,
                 errs,
                 events
                 \o <<Event(c.arg, k, "write", thumbnail_path, data, TRUE)>>
                 \o (IF c.in_browser
                     THEN <<Event(c.arg, k, "browser", thumbnail_path, <<>>, TRUE)>>
                     ELSE <<>>))

\* extract_thumbnails over a lazy get_thumbnails: the thumbnails extracted
\* before the failing one have gone through the loop body when the error
\* leaves the function
extract_thumbnails_lazy(d, mdb, files, tabs, errs, arg, rawfile_path, destination_path, in_browser) ==
    LET opened == from_path(d, <<>>, rawfile_path, OR_RAWFILE_TYPE_UNKNOWN)
        thumbnail_base_name == splitext(basename(rawfile_path))[1]
        got == get_thumbnails(opened.sessions, <<>>, opened.value)
        c == [arg |-> arg, path |-> rawfile_path, base |-> thumbnail_base_name,
              destination |-> destination_path, in_browser |-> in_browser]
        extracted == [k \in 1..Len(got.heap) |-> Bitmap(k)]
    IN  IF opened.raised THEN Failed(opened.error, Requests(arg, opened.calls))
        ELSE IF got.raised
        THEN Failed(got.error,
                    write_thumbnails(mdb, got.heap, extracted, 1, c, files, tabs, errs,
                        Requests(arg, opened.calls \o got.calls)).events)
        ELSE write_thumbnails(mdb, got.heap, got.value, 1, c, files, tabs, errs,
                              Requests(arg, opened.calls \o got.calls))

\* extract_thumbnails(rawfile_path, destination_path, open_in_browser), as
\* call number arg of main
extract_thumbnails(d, mdb, files, tabs, errs, arg, rawfile_path, destination_path, in_browser) ==
    LET opened == from_path(d, <<>>, rawfile_path, OR_RAWFILE_TYPE_UNKNOWN)
        thumbnail_base_name == splitext(basename(rawfile_path))[1]
        got == get_thumbnails(opened.sessions, <<>>, opened.value)
        c == [arg |-> arg, path |-> rawfile_path, base |-> thumbnail_base_name,
              destination |-> destination_path, in_browser |-> in_browser]
    IN  IF opened.raised THEN Failed(opened.error, Requests(arg, opened.calls))
        ELSE IF got.raised
        THEN Failed(got.error, Requests(arg, opened.calls \o got.calls))
        ELSE write_thumbnails(mdb, got.heap, got.value, 1, c, files, tabs, errs,
                              Requests(arg, opened.calls \o got.calls))

\* sequences over S of length 0..n
SeqsUpTo(S, n) == UNION {[1..k -> S] : k \in 0..n}

InitDriver ==
    /\ sessions = <<>>
    /\ heap = <<>>
    /\ rawfiles = <<>>
    /\ result = NoCall
    /\ calls = <<>>
    /\ returned = {}
    /\ ncalls = 0
    /\ args \in SeqsUpTo(Paths, MaxArgs)
    /\ open_in_browser \in BOOLEAN
    /\ argi = 1
    /\ pc = "run"
    /\ exc = NoError
    /\ fs = NoFiles
    /\ stderr = <<>>
    /\ browser = <<>>
    /\ trace = <<>>

InitRaw ==
    /\ prog = "cfa.py"
    /\ disk \in Disks
    /\ mimedb \in MimeDbs
    /\ mimedb["image/jpeg"] = <<".", "j", "p", "e">>
    /\ mimedb["image/tiff"] = <<".", "t", "i", "f">>
    /\ InitDriver

\* if not args: parser.error(...): usage message and exit status 2
NoArguments ==
    /\ pc = "run"
    /\ args = <<>>
    /\ pc' = "usage"
    /\ UNCHANGED <<args, open_in_browser, mimedb, argi, exc, fs, stderr, browser, trace>>
    /\ UNCHANGED facadeVars

\* one iteration of main's loop in cfa.py
ExtractRawImage ==
    /\ prog = "cfa.py"
    /\ pc = "run"
    /\ argi <= Len(args)
    /\ \E o \in {extract_raw_image(disk, fs, browser, argi, args[argi],
                                   Destination, open_in_browser)} :
        /\ pc' = after_call(o.raised, argi, Len(args))
        /\ trace' = trace \o o.events
        /\ IF o.raised
           THEN /\ exc' = o.error
                /\ UNCHANGED <<fs, browser>>
           ELSE /\ fs' = o.fs
                /\ browser' = o.browser
                /\ UNCHANGED exc
        /\ argi' = IF pc' = "crashed" THEN argi ELSE argi + 1
    /\ UNCHANGED <<args, open_in_browser, mimedb, stderr>>
    /\ UNCHANGED facadeVars

NextRaw ==
    \/ NoArguments
    \/ ExtractRawImage

SpecRaw == InitRaw /\ [][NextRaw]_vars

InitThumb ==
    /\ prog = "thumb.py"
    /\ disk = DefaultDisk
    /\ mimedb \in MimeDbs
    /\ InitDriver

\* one iteration of main's loop in thumb.py
ExtractThumbnails ==
    /\ prog = "thumb.py"
    /\ pc = "run"
    /\ argi <= Len(args)
    /\ \E o \in {extract_thumbnails(disk, mimedb, fs, browser, stderr, argi,
                                    args[argi], Destination, open_in_browser)} :
        /\ pc' = after_call(o.raised, argi, Len(args))
        /\ trace' = trace \o o.events
        /\ IF o.raised
           THEN /\ exc' = o.error
                /\ UNCHANGED <<fs, browser, stderr>>
           ELSE /\ fs' = o.fs
                /\ browser' = o.browser
                /\ stderr' = o.stderr
                /\ UNCHANGED exc
        /\ argi' = IF pc' = "crashed" THEN argi ELSE argi + 1
    /\ UNCHANGED <<args, open_in_browser, mimedb>>
    /\ UNCHANGED facadeVars

NextThumb ==
    \/ NoArguments
    \/ ExtractThumbnails

SpecThumb == InitThumb /\ [][NextThumb]_vars

-----------------------------------------------------------------------------
(* The two drivers together, and the three programs together. *)

InitDrivers == InitRaw \/ InitThumb

NextDrivers ==
    \/ NoArguments
    \/ ExtractRawImage
    \/ ExtractThumbnails

SpecDrivers == InitDrivers /\ [][NextDrivers]_vars

Init == InitFacade \/ InitRaw \/ InitThumb

Next ==
    \/ NextFacade
    \/ NextRaw
    \/ NextThumb

Spec == Init /\ [][Next]_vars

-----------------------------------------------------------------------------
(* Properties of the facade. *)

\* the engine request behind the last facade call
EngineRequest == calls[Len(calls)]

\* C1: RawFile.from_path and RawFile.from_string never give the caller a
\* RawFile whose handle is null: when the engine's open call returns no
\* handle the factory raises openraw.Error (without an error code) and the
\* caller gets no RawFile, otherwise it returns a RawFile wrapping exactly
\* the handle the engine returned.
C1_FactoryNeverReturnsNullHandle ==
    /\ \A i \in 1..Len(rawfiles) : rawfiles[i]._rawfile # None
    /\ result.op \in {"from_path", "from_string"} =>
         /\ Len(calls) = 1
         /\ EngineRequest.op =
              (IF result.op = "from_path" THEN "newRawFile" ELSE "newRawFileFromMemory")
         /\ EngineRequest.arg = result.arg
         /\ IF EngineRequest.ret = None
            THEN /\ result.raised
                 /\ result.error = Error(PyNone)
            ELSE /\ ~result.raised
                 /\ result.value = RawFile(EngineRequest.ret)
                 /\ rawfiles # <<>>
                 /\ Last(rawfiles) = result.value
                 /\ EngineRequest.ret.id \in 1..Len(sessions)

\* C1 happens: after a successful open, an open for which the engine has no
\* handle raised
C1_Witness ==
    /\ rawfiles # <<>>
    /\ result.op \in {"from_path", "from_string"}
    /\ EngineRequest.ret = None
    /\ result.raised

\* what the engine answers to the request of the last get_thumbnail or
\* get_raw_data call
EngineAnswer ==
    IF result.op = "get_thumbnail"
    THEN getThumbnail(SessionOf(sessions, rawfiles[result.self]), result.arg, NewThumbnail)
    ELSE getRawData(SessionOf(sessions, rawfiles[result.self]), NewRawData, result.arg)

\* C2: get_thumbnail(requested_width) and get_raw_data(options) on a valid
\* RawFile return a Bitmap if and only if the engine's error code is
\* OR_ERROR_NONE; for any other code c they raise openraw.Error carrying
\* exactly c, and return no Bitmap.
C2_BitmapIffErrorNone ==
    result.op \in {"get_thumbnail", "get_raw_data"} =>
        /\ Len(calls) = 1
        /\ EngineRequest.op =
             (IF result.op = "get_thumbnail" THEN "getThumbnail" ELSE "getRawData")
        /\ EngineRequest.handle = rawfiles[result.self]._rawfile
        /\ EngineRequest.arg = result.arg
        /\ EngineRequest.ret = EngineAnswer[1]
        /\ ~result.raised <=> EngineAnswer[1] = OR_ERROR_NONE
        /\ result.raised => result.error = Error(EngineAnswer[1])
        /\ ~result.raised =>
             /\ result.value = Bitmap(Len(heap))
             /\ heap[Len(heap)].bitmap = EngineAnswer[2]

\* C2 happens: the engine refused a raw-data request with a code and the
\* call raised it
C2_Witness ==
    /\ result.op = "get_raw_data"
    /\ result.raised
    /\ result.error.or_error_code = OR_ERROR_INVALID_FORMAT

-----------------------------------------------------------------------------
(* Reading back what the drivers wrote. *)

DigitValue(c) == CHOOSE d \in 0..9 : Digit[d + 1] = c

\* a decimal numeral as '%d' prints a natural number: digits, no leading zero
IsNumeral(s) ==
    /\ s # <<>>
    /\ \A i \in 1..Len(s) : s[i] \in Range(Digit)
    /\ Len(s) = 1 \/ s[1] # "0"

RECURSIVE ParseD(_)
ParseD(s) ==
    IF s = <<>> THEN 0
    ELSE 10 * ParseD(SubSeq(s, 1, Len(s) - 1)) + DigitValue(s[Len(s)])

\* the position of the n-th occurrence of c in s (0 for n = 0)
NthPosition(s, c, n) ==
    IF n = 0 THEN 0
    ELSE CHOOSE p \in Positions(s, c) :
            Cardinality({q \in Positions(s, c) : q <= p}) = n

HasHeader(bytes) == Cardinality(Positions(bytes, "\n")) >= 3

\* the n-th line of the file, without its newline
HeaderLine(bytes, n) ==
    SubSeq(bytes, NthPosition(bytes, "\n", n - 1) + 1, NthPosition(bytes, "\n", n) - 1)

\* what follows the third newline
Payload(bytes) == SubSeq(bytes, NthPosition(bytes, "\n", 3) + 1, Len(bytes))

\* the two words of a line with one space
FirstWord(line) == SubSeq(line, 1, NthPosition(line, " ", 1) - 1)
SecondWord(line) == SubSeq(line, NthPosition(line, " ", 1) + 1, Len(line))

\* the positions of the write events of the trace
Writes == {k \in 1..Len(trace) : trace[k].op = "write"}

\* the raw data the engine holds for a path, as get_raw_data() extracts it
RawOf(path) == getRawData(Session(disk[path], OR_RAWFILE_TYPE_UNKNOWN),
                          NewRawData, OR_OPTIONS_NONE)[2]

\* the k-th thumbnail the engine gives when asked for each of its widths
ThumbOf(path, k) ==
    getThumbnail(Session(disk[path], OR_RAWFILE_TYPE_UNKNOWN),
                 disk[path].thumbs[k].width, NewThumbnail)[2]

\* the bitmap a write event of a driver encodes
Encoded(e) ==
    IF prog = "cfa.py" THEN RawOf(args[e.arg]) ELSE ThumbOf(args[e.arg], e.k)

\* C3: in the file written by extract_raw_image the declared maximum sample
\* value of the header is 2^bits_per_channel - 1 of the extracted RawData,
\* whatever bits_per_channel is, and does not depend on the max the RawData
\* reports: the same RawData with any other max gives the same bytes.
C3_MaxvalFromBitDepth ==
    prog = "cfa.py" =>
        \A k \in Writes :
            LET raw == RawOf(args[trace[k].arg])
            IN  /\ HasHeader(trace[k].data)
                /\ IsNumeral(HeaderLine(trace[k].data, 3))
                /\ ParseD(HeaderLine(trace[k].data, 3)) = 2 ^ raw.bpc - 1
                /\ \A m \in MaxSet \cup {0, raw.max, 2 ^ raw.bpc - 1} :
                     pgm_bytes(<<Native(setMax(raw, m), None, <<>>)>>, Bitmap(1))
                       = trace[k].data
                /\ (\A j \in Writes : j > k => trace[j].what # trace[k].what)
                     => fs[trace[k].what] = trace[k].data

\* C3 happens: a file was written for raw data whose reported max is not
\* 2^bits_per_channel - 1
C3_Witness ==
    /\ prog = "cfa.py"
    /\ \E k \in Writes :
         LET raw == RawOf(args[trace[k].arg])
         IN  /\ raw.max # 2 ^ raw.bpc - 1
             /\ raw.bpc = 12
             /\ fs[trace[k].what] = trace[k].data

\* C4: for every extracted Bitmap encoded into a portable container (P5 by
\* extract_raw_image, P6 by write_rgb8pixmap_to_stream), the second header
\* line is exactly "<width> <height>", the Bitmap's get_width() and
\* get_height() in that order.
C4_HeaderDimensions ==
    \A k \in Writes :
        LET e == trace[k]
            b == Encoded(e)
            line == HeaderLine(e.data, 2)
        IN  (prog = "cfa.py" \/ b.dataType = OR_DATA_TYPE_PIXMAP_8RGB) =>
                /\ HasHeader(e.data)
                /\ HeaderLine(e.data, 1) =
                     (IF prog = "cfa.py" THEN <<"P", "5">> ELSE <<"P", "6">>)
                /\ Cardinality(Positions(line, " ")) = 1
                /\ IsNumeral(FirstWord(line))
                /\ IsNumeral(SecondWord(line))
                /\ ParseD(FirstWord(line)) = b.x
                /\ ParseD(SecondWord(line)) = b.y

\* C4 happens: a P6 file was written for a packed RGB thumbnail that is not
\* square
C4_Witness ==
    /\ prog = "thumb.py"
    /\ \E k \in Writes :
         /\ Encoded(trace[k]).dataType = OR_DATA_TYPE_PIXMAP_8RGB
         /\ Encoded(trace[k]).x # Encoded(trace[k]).y
         /\ HeaderLine(trace[k].data, 1) = <<"P", "6">>

-----------------------------------------------------------------------------
(* Properties of the thumbnail driver. *)

\* the positions of the events of kind op for thumbnail k of argument i
EventsFor(i, k, op) ==
    {j \in 1..Len(trace) : trace[j].arg = i /\ trace[j].k = k /\ trace[j].op = op}

\* the positions of all events of kind op
EventsOf(op) == {j \in 1..Len(trace) : trace[j].op = op}

\* a thumbnail extract_thumbnails can encode
Supported(b) ==
    \/ b.dataType = OR_DATA_TYPE_PIXMAP_8RGB
    \/ b.dataType \in {OR_DATA_TYPE_JPEG, OR_DATA_TYPE_TIFF, OR_DATA_TYPE_PNG}

\* the calls of extract_thumbnails that have returned
ReturnedCalls == 1..(argi - 1)

\* C5: in extract_thumbnails a thumbnail whose data type is neither packed
\* 8-bit RGB nor in the MIME mapping is skipped: exactly one diagnostic is
\* emitted for it (naming the type, the file and the dimensions), no file is
\* written and no viewer is launched for it, and the other thumbnails of the
\* file, before and after it in enumeration order, are each still written
\* (or, unsupported themselves, skipped the same way).
C5_UnsupportedThumbnailSkipped ==
    prog = "thumb.py" =>
        /\ Len(stderr) = Cardinality(EventsOf("stderr"))
        /\ \A i \in ReturnedCalls : \A k \in 1..Len(disk[args[i]].thumbs) :
             LET b == ThumbOf(args[i], k)
             IN  IF ~Supported(b)
                 THEN /\ Cardinality(EventsFor(i, k, "stderr")) = 1
                      /\ EventsFor(i, k, "write") = {}
                      /\ EventsFor(i, k, "browser") = {}
                      /\ \A j \in EventsFor(i, k, "stderr") :
                           stderr[Cardinality({n \in EventsOf("stderr") : n <= j})]
                             = [type |-> b.dataType, path |-> args[i],
                                width |-> b.x, height |-> b.y]
                 ELSE /\ Cardinality(EventsFor(i, k, "write")) = 1
                      /\ EventsFor(i, k, "stderr") = {}
                      /\ Cardinality(EventsFor(i, k, "browser")) =
                           (IF open_in_browser THEN 1 ELSE 0)
                      /\ \A j \in EventsFor(i, k, "write") :
                           /\ trace[j].what \in DOMAIN fs
                           /\ \A k2 \in 1..(k - 1) : \A j2 \in EventsFor(i, k2, "write") :
                                j2 < j

\* C5 happens: a file's second thumbnail was skipped with a diagnostic, its
\* first and third were written
C5_Witness ==
    /\ prog = "thumb.py"
    /\ \E i \in ReturnedCalls :
         /\ Len(disk[args[i]].thumbs) = 3
         /\ ~Supported(ThumbOf(args[i], 2))
         /\ EventsFor(i, 2, "stderr") # {}
         /\ EventsFor(i, 1, "write") # {}
         /\ EventsFor(i, 3, "write") # {}
         /\ Len(stderr) >= 1

\* the suffix of a file name
Suffix(path) == splitext(path)[2]

\* C6: the bytes the thumbnail driver writes for one thumbnail are lossless:
\* for a packed 8-bit RGB thumbnail exactly "P6\n<width> <height>\n255\n"
\* followed by byte_data unchanged, with suffix .ppm; for a JPEG, TIFF or PNG
\* thumbnail exactly byte_data, with a suffix determined by the MIME type
\* alone. The thumbnail driver never emits the single-channel P5/.pgm
\* encoding.
C6_ThumbnailBytesLossless ==
    prog = "thumb.py" =>
        \A k \in Writes :
            LET e == trace[k]
                b == Encoded(e)
            IN  /\ Supported(b)
                /\ IF b.dataType = OR_DATA_TYPE_PIXMAP_8RGB
                   THEN /\ HasHeader(e.data)
                        /\ HeaderLine(e.data, 1) = <<"P", "6">>
                        /\ Cardinality(Positions(HeaderLine(e.data, 2), " ")) = 1
                        /\ IsNumeral(FirstWord(HeaderLine(e.data, 2)))
                        /\ IsNumeral(SecondWord(HeaderLine(e.data, 2)))
                        /\ ParseD(FirstWord(HeaderLine(e.data, 2))) = b.x
                        /\ ParseD(SecondWord(HeaderLine(e.data, 2))) = b.y
                        /\ HeaderLine(e.data, 3) = <<"2", "5", "5">>
                        /\ Payload(e.data) = b.data
                        /\ Suffix(e.what) = <<".", "p", "p", "m">>
                   ELSE /\ e.data = b.data
                        /\ Suffix(e.what) = mimedb[DATATYPE_TO_MIMETYPE[b.dataType]]
                        /\ \A k2 \in Writes :
                             Encoded(trace[k2]).dataType = b.dataType
                               => Suffix(trace[k2].what) = Suffix(e.what)
                /\ Suffix(e.what) # <<".", "p", "g", "m">>
                /\ (\A j \in Writes : j > k => trace[j].what # e.what)
                     => fs[e.what] = e.data

\* C6 happens: a packed RGB thumbnail and a JPEG thumbnail were written and
\* their files hold the bytes
C6_Witness ==
    /\ prog = "thumb.py"
    /\ \E k1 \in Writes, k2 \in Writes :
         /\ Encoded(trace[k1]).dataType = OR_DATA_TYPE_PIXMAP_8RGB
         /\ Encoded(trace[k2]).dataType = OR_DATA_TYPE_JPEG
         /\ fs[trace[k1].what] = trace[k1].data
         /\ fs[trace[k2].what] = trace[k2].data

-----------------------------------------------------------------------------
(* Properties of get_thumbnails, of the raw-data batch and of bitmaps. *)

IsThumbnailRequest(r) == r.op = "getThumbnail"

\* the extraction requests of the last facade call, in order
ThumbnailRequests == SelectSeq(calls, IsThumbnailRequest)

\* the widths the engine reports for the RawFile of the last facade call
ReportedWidths == listThumbnailSizes(SessionOf(sessions, rawfiles[result.self]))

\* the bitmap the engine extracts for a width from the RawFile of the last call
Extracted(width) ==
    getThumbnail(SessionOf(sessions, rawfiles[result.self]), width, NewThumbnail)

\* on success get_thumbnails returns one Thumbnail per reported width, the
\* i-th being the engine's result for the i-th width
ListMatchesWidths ==
    ~result.raised =>
        /\ Len(result.value) = Len(ReportedWidths)
        /\ \A i \in 1..Len(result.value) :
             heap[result.value[i]._bitmap].bitmap = Extracted(ReportedWidths[i])[2]

\* C7 as stated: get_thumbnails issues exactly one extraction request per
\* entry of thumbnail_widths, in the engine's order, duplicates included; on
\* success the list has the length of thumbnail_widths and its i-th element
\* is the result for the i-th width.
C7_OneRequestPerWidth ==
    result.op = "get_thumbnails" =>
        /\ [j \in 1..Len(ThumbnailRequests) |-> ThumbnailRequests[j].arg] = ReportedWidths
        /\ ListMatchesWidths

\* C7, amended: get_thumbnails issues one extraction request per entry of
\* thumbnail_widths, in the engine's order and with duplicate widths
\* requested again, up to and including the first entry for which the engine
\* returns an error code, which it raises; later entries are not requested.
\* When no request fails there is exactly one request per entry, the list has
\* the length of thumbnail_widths and its i-th element is the result for the
\* i-th width.
C7_OneRequestPerWidthUntilFailure ==
    result.op = "get_thumbnails" =>
        LET reqs == ThumbnailRequests
        IN  /\ calls # <<>>
            /\ calls[1].op = "listThumbnailSizes"
            /\ Len(calls) = Len(reqs) + 1
            /\ Len(reqs) <= Len(ReportedWidths)
            /\ \A j \in 1..Len(reqs) :
                 /\ reqs[j].handle = rawfiles[result.self]._rawfile
                 /\ reqs[j].arg = ReportedWidths[j]
                 /\ reqs[j].ret = Extracted(ReportedWidths[j])[1]
                 /\ j < Len(reqs) => reqs[j].ret = OR_ERROR_NONE
            /\ result.raised <=> (reqs # <<>> /\ Last(reqs).ret # OR_ERROR_NONE)
            /\ result.raised => result.error = Error(Last(reqs).ret)
            /\ ~result.raised => Len(reqs) = Len(ReportedWidths)
            /\ ListMatchesWidths

\* C7 happens: a file reporting the same width twice gave a list with one
\* Thumbnail per entry
C7_Witness ==
    /\ result.op = "get_thumbnails"
    /\ ~result.raised
    /\ Len(result.value) = 3
    /\ \E i, j \in 1..Len(ReportedWidths) : i # j /\ ReportedWidths[i] = ReportedWidths[j]
    /\ Len(ThumbnailRequests) = 3

\* the arguments for which the engine gave no handle or an error code
FailedArgs == {trace[k].arg : k \in {j \in 1..Len(trace) : ~trace[j].ok}}

\* C8: in the extract-raw batch the first input whose open or raw-data
\* extraction fails stops the whole batch: the error propagates uncaught, no
\* output file is created for the failing input, no later input is opened or
\* written, and the output files of all earlier inputs are complete and
\* unchanged.
C8_FirstFailureStopsBatch ==
    prog = "cfa.py" =>
        \A i \in FailedArgs :
            /\ pc = "crashed"
            /\ argi = i
            /\ exc.class = "openraw.Error"
            /\ ~Last(trace).ok
            /\ \A k \in 1..Len(trace) :
                 /\ trace[k].arg <= i
                 /\ trace[k].arg = i => trace[k].op \in {"newRawFile", "getRawData"}
            /\ Len(browser) = Cardinality(EventsOf("browser"))
            /\ DOMAIN fs = {trace[k].what : k \in Writes}
            /\ \A j \in 1..(i - 1) :
                 /\ Cardinality(EventsFor(j, 0, "write")) = 1
                 /\ \A k \in EventsFor(j, 0, "write") :
                      /\ HasHeader(trace[k].data)
                      /\ HeaderLine(trace[k].data, 1) = <<"P", "5">>
                      /\ Payload(trace[k].data) = RawOf(args[j]).data
                      /\ (\A k2 \in Writes : k2 > k => trace[k2].what # trace[k].what)
                           => fs[trace[k].what] = trace[k].data

\* C8 happens: the second of three inputs failed after the first was written
C8_Witness ==
    /\ prog = "cfa.py"
    /\ Len(args) = 3
    /\ pc = "crashed"
    /\ argi = 2
    /\ FailedArgs = {2}
    /\ Writes # {}
    /\ fs # NoFiles

NonDataSetters ==
    {"setDimensions", "setBpc", "setDataType", "setMin", "setMax", "setCompression"}

\* C9: for every Bitmap, after any sequence of mutations, get_size() is the
\* length of get_data(); and a mutation of a field other than the data
\* leaves get_data() and get_size() of every Bitmap unchanged.
C9_SizeIsDataLength ==
    [][/\ \A b \in 1..Len(heap') :
            get_size(heap', Bitmap(b)) = Len(get_data(heap', Bitmap(b)))
       /\ result'.op \in NonDataSetters =>
            /\ Len(heap') = Len(heap)
            /\ \A b \in 1..Len(heap) :
                 /\ get_data(heap', Bitmap(b)) = get_data(heap, Bitmap(b))
                 /\ get_size(heap', Bitmap(b)) = get_size(heap, Bitmap(b))]_vars

\* C9 happens: a Bitmap with data had its bit depth and then its dimensions
\* changed
C9_Witness ==
    /\ result.op = "setDimensions"
    /\ heap[result.self].bitmap.bpc = 21
    /\ heap[result.self].bitmap.x = 50
    /\ get_data(heap, Bitmap(result.self)) # <<>>
    /\ get_size(heap, Bitmap(result.self)) = Len(get_data(heap, Bitmap(result.self)))

\* C10: for a fixed RawFile and a fixed requested_width every call of
\* get_thumbnail returns a Bitmap with the same byte data, whatever other
\* queries, extractions or mutations of returned Bitmaps were made in between.
C10_ThumbnailDeterministic ==
    \A r1, r2 \in returned :
        (r1.self = r2.self /\ r1.width = r2.width) => r1.data = r2.data

\* C10 happens: get_thumbnail was called again with the width of an earlier
\* call on the same RawFile, after the data of the Bitmap returned first was
\* replaced
C10_Witness ==
    /\ result.op = "get_thumbnail"
    /\ ~result.raised
    /\ \E b \in 1..(Len(heap) - 1) :
         /\ heap[b].bitmap.kind = "Thumbnail"
         /\ heap[b].handle = heap[Len(heap)].handle
         /\ heap[b].arg = result.arg
         /\ heap[b].bitmap.data # heap[Len(heap)].bitmap.data
         /\ heap[b].bitmap.data \in NewDataSet

-----------------------------------------------------------------------------
(* Properties of extract_thumbnails as a whole. *)

\* the engine's code for the k-th width it reports for a path
ThumbCode(path, k) ==
    getThumbnail(Session(disk[path], OR_RAWFILE_TYPE_UNKNOWN),
                 disk[path].thumbs[k].width, NewThumbnail)[1]

\* the widths of a path, by position, for which the engine returns a code
\* other than OR_ERROR_NONE
FailingWidths(path) ==
    {k \in 1..Len(disk[path].thumbs) : ThumbCode(path, k) # OR_ERROR_NONE}

\* the calls of main that have been made: those that returned and the one
\* that raised
StartedCalls == {i \in 1..Len(args) : i < argi \/ (i = argi /\ pc = "crashed")}

\* the events of argument i among the given kinds
EventsOfArg(i, ops) == {j \in 1..Len(trace) : trace[j].arg = i /\ trace[j].op \in ops}

\* the file argument i was opened by the engine
Opened(i) == \E j \in EventsOfArg(i, {"newRawFile"}) : trace[j].ok

\* C11: in extract_thumbnails all thumbnails of an input are extracted before
\* the first one is written: every extraction request of an input precedes
\* every write and viewer launch for it, and if the engine returns a code
\* other than OR_ERROR_NONE for any width of the file, the error propagates
\* with that code and no thumbnail of that input has been written, no
\* diagnostic printed and no viewer launched, the widths before the failing
\* one included.
C11_ExtractedBeforeWritten ==
    prog = "thumb.py" =>
        \A i \in StartedCalls :
            LET requests == EventsOfArg(i, {"getThumbnail"})
                outputs == EventsOfArg(i, {"write", "browser", "stderr"})
                failing == FailingWidths(args[i])
            IN  /\ \A j \in requests, w \in outputs : j < w
                /\ outputs # {} =>
                     /\ Cardinality(requests) = Len(disk[args[i]].thumbs)
                     /\ \A j \in requests : trace[j].ok
                /\ (Opened(i) /\ failing # {}) =>
                     /\ pc = "crashed"
                     /\ argi = i
                     /\ exc = Error(ThumbCode(args[i], Min(failing)))
                     /\ Cardinality(requests) = Min(failing)
                     /\ \A j \in requests : trace[j].ok <=> j # Max(requests)
                     /\ outputs = {}
                     /\ DOMAIN fs = {trace[k].what : k \in Writes}
                     /\ \A k \in Writes : trace[k].arg < i
                     /\ Len(browser) = Cardinality(EventsOf("browser"))
                     /\ Len(stderr) = Cardinality(EventsOf("stderr"))

\* C11 happens: the second input has a width that fails after one that was
\* extracted, the first input had been written, and the run ended there
C11_Witness ==
    /\ prog = "thumb.py"
    /\ pc = "crashed"
    /\ argi = 2
    /\ Len(args) >= 2
    /\ FailingWidths(args[2]) # {}
    /\ Min(FailingWidths(args[2])) = 2
    /\ \E j \in EventsOfArg(2, {"getThumbnail"}) : trace[j].ok
    /\ \E j \in EventsOfArg(2, {"getThumbnail"}) : ~trace[j].ok
    /\ EventsOfArg(1, {"write"}) # {}
    /\ EventsOfArg(1, {"browser"}) # {}
    /\ fs # NoFiles

-----------------------------------------------------------------------------
(* Reading back the name of an output file of extract_thumbnails:           *)
(* <directory>/<base>-<width>x<height><suffix>.                             *)

\* the file name without directory and suffix
OutputStem(path) == splitext(basename(path))[1]

\* the directory of the file
OutputDirectory(path) == SubSeq(path, 1, Len(path) - Len(basename(path)) - 1)

\* what precedes the last "-" of the stem, and what follows it
OutputBase(path) ==
    SubSeq(OutputStem(path), 1, Max(Positions(OutputStem(path), "-")) - 1)

OutputDimensions(path) ==
    SubSeq(OutputStem(path), Max(Positions(OutputStem(path), "-")) + 1,
           Len(OutputStem(path)))

\* the two numerals around the "x"
OutputWidth(path) ==
    SubSeq(OutputDimensions(path), 1, NthPosition(OutputDimensions(path), "x", 1) - 1)

OutputHeight(path) ==
    SubSeq(OutputDimensions(path), NthPosition(OutputDimensions(path), "x", 1) + 1,
           Len(OutputDimensions(path)))

\* the base name extract_thumbnails derives from file argument i
InputBase(i) == splitext(basename(args[i]))[1]

\* the write events that name the file path, and the last of them
WritesTo(path) == {k \in Writes : trace[k].what = path}

LastWriteTo(path) == Max(WritesTo(path))

\* two write events agree on base name, width, height and suffix
SameNameParts(k1, k2) ==
    /\ InputBase(trace[k1].arg) = InputBase(trace[k2].arg)
    /\ Encoded(trace[k1]).x = Encoded(trace[k2]).x
    /\ Encoded(trace[k1]).y = Encoded(trace[k2]).y
    /\ Suffix(trace[k1].what) = Suffix(trace[k2].what)

\* C12: the output names of extract_thumbnails are a function of base name,
\* width, height and suffix only: each file written is
\* <destination>/<basename>-<width>x<height><suffix>, thumbnails that agree on
\* the four get the same file, the writes happen in enumeration order, and
\* after the run each file holds the bytes of the last thumbnail written to
\* its name, an earlier one being overwritten; so there are at most as many
\* files as thumbnails written.
C12_OutputNameCollisions ==
    prog = "thumb.py" =>
        /\ \A k \in Writes :
             LET e == trace[k]
                 b == Encoded(e)
             IN  /\ OutputDirectory(e.what) = Destination
                 /\ Positions(OutputStem(e.what), "-") # {}
                 /\ Cardinality(Positions(OutputDimensions(e.what), "x")) = 1
                 /\ OutputBase(e.what) = InputBase(e.arg)
                 /\ IsNumeral(OutputWidth(e.what))
                 /\ IsNumeral(OutputHeight(e.what))
                 /\ ParseD(OutputWidth(e.what)) = b.x
                 /\ ParseD(OutputHeight(e.what)) = b.y
        /\ \A k1, k2 \in Writes :
             /\ SameNameParts(k1, k2) => trace[k1].what = trace[k2].what
             /\ k1 < k2 =>
                  \/ trace[k1].arg < trace[k2].arg
                  \/ trace[k1].arg = trace[k2].arg /\ trace[k1].k < trace[k2].k
        /\ DOMAIN fs = {trace[k].what : k \in Writes}
        /\ \A path \in DOMAIN fs :
             LET e == trace[LastWriteTo(path)]
                 b == Encoded(e)
             IN  /\ fs[path] = e.data
                 /\ IF b.dataType = OR_DATA_TYPE_PIXMAP_8RGB
                    THEN Payload(fs[path]) = b.data
                    ELSE fs[path] = b.data
        /\ Cardinality(DOMAIN fs) <= Cardinality(Writes)

\* C12 happens: two inputs of the same base name in different directories
\* gave a thumbnail of the same dimensions and suffix and of different bytes,
\* a third input gave the same width twice, and there are fewer files than
\* thumbnails written
C12_Witness ==
    /\ prog = "thumb.py"
    /\ pc = "done"
    /\ \E k1, k2 \in Writes :
         /\ k1 < k2
         /\ trace[k1].arg # trace[k2].arg
         /\ args[trace[k1].arg] # args[trace[k2].arg]
         /\ trace[k1].what = trace[k2].what
         /\ trace[k1].data # trace[k2].data
         /\ fs[trace[k2].what] = trace[k2].data
    /\ \E k1, k2 \in Writes :
         /\ trace[k1].arg = trace[k2].arg
         /\ trace[k1].k # trace[k2].k
         /\ trace[k1].what = trace[k2].what
    /\ Cardinality(DOMAIN fs) < Cardinality(Writes)

====
